---- MODULE Spec2Model ----
(***************************************************************************)
(* Model of app.py, the solar-suitability dashboard.  The script runs top  *)
(* to bottom on every user interaction: it locates and loads the           *)
(* shapefile, builds the state / district / category controls, filters     *)
(* the table, draws the legend, composes the map and shows the district    *)
(* details.  One run of the script is one action of the model.             *)
(*                                                                         *)
(* Text is a sequence of words, so that Python's substring test `in` is a  *)
(* contiguous-subsequence test.  A cell of the table is a tagged value     *)
(* [tag, s]: tag is the Python type the loader produced and s is what      *)
(* str() makes of it.                                                      *)
(***************************************************************************)
EXTENDS Integers, Sequences, FiniteSets, TLC

VARIABLES
    cwd_files,         \* os.listdir('.') : sequence of file names [stem, ext]
    parent_files,      \* the file names present in the parent directory
    disk,              \* the table stored in the shapefile on disk
    shapefile_path,    \* result of find_shapefile
    gdf,               \* the table as loaded by this run
    states,            \* options of the state selectbox
    selected_state,
    districts,         \* options of the district selectbox
    selected_district,
    selected_category,
    filtered_gdf,      \* rows left after the state and district filter
    legend,            \* legend entries [label, color] in display order
    center,            \* map center, NoCenter while not computed
    zoom_level,        \* 0 while not computed
    fills,             \* fill colour style_function gave each feature
    details_shown,     \* the "Details for ..." panel was emitted
    details,           \* lines [label, value] of the details panel
    outcome,           \* "fresh", "map", "no_data" or "error"
    error              \* what the top-level except caught, NoError otherwise

vars == << cwd_files, parent_files, disk, shapefile_path, gdf, states,
           selected_state, districts, selected_district, selected_category,
           filtered_gdf, legend, center, zoom_level, fills, details_shown,
           details, outcome, error >>

----------------------------------------------------------------------------
(* Bounds of the model.                                                    *)

MaxFiles == 3        \* files listed in the working directory
MaxRows == 2         \* rows of the table when region names vary
MaxStyleRows == 2    \* rows of the table when suitability labels vary
MaxGeoRows == 2      \* rows of the table when geometries vary

(* Coordinates are kept in half degrees, so that 0.5 and 3.5 degrees are   *)
(* integers: Deg(n) is n degrees.                                          *)
Deg(n) == 2 * n

----------------------------------------------------------------------------
(* Values and text.                                                        *)

Str(words) == [tag |-> "str", s |-> words]
Num(digits) == [tag |-> "int", s |-> << digits >>]
None == [tag |-> "none", s |-> << "None" >>]
NaN == [tag |-> "float", s |-> << "nan" >>]
Absent == [tag |-> "absent", s |-> << >>]

str(v) == v.s

(* pandas' elementwise  column == text : a cell equals a Python string     *)
(* only when it is a string with the same text.                            *)
CellEquals(v, text) == v.tag = "str" /\ v.s = text

(* Python's  pattern in text                                               *)
Contains(text, pattern) ==
    \E i \in 1..(Len(text) - Len(pattern) + 1) :
        SubSeq(text, i, i + Len(pattern) - 1) = pattern

(* Words in code point order, as sorted() compares them.                   *)
CodePointOrder ==
    << "1", "2", "Goa", "Kerala", "None", "North", "South", "nan" >>

Rank(word) == CHOOSE i \in 1..Len(CodePointOrder) : CodePointOrder[i] = word

RECURSIVE TextLess(_, _)
TextLess(a, b) ==
    IF b = << >> THEN FALSE
    ELSE IF a = << >> THEN TRUE
    ELSE IF Head(a) = Head(b) THEN TextLess(Tail(a), Tail(b))
    ELSE Rank(Head(a)) < Rank(Head(b))

RECURSIVE InsertSorted(_, _)
InsertSorted(x, seq) ==
    IF seq = << >> THEN << x >>
    ELSE IF TextLess(x, Head(seq)) THEN << x >> \o seq
    ELSE << Head(seq) >> \o InsertSorted(x, Tail(seq))

RECURSIVE sorted(_)
sorted(seq) ==
    IF seq = << >> THEN << >>
    ELSE InsertSorted(Head(seq), sorted(Tail(seq)))

Range(seq) == { seq[i] : i \in 1..Len(seq) }

(* Series.unique(): the distinct values in order of first appearance.      *)
RECURSIVE unique(_)
unique(seq) ==
    IF seq = << >> THEN << >>
    ELSE LET rest == unique(SubSeq(seq, 1, Len(seq) - 1))
             last == seq[Len(seq)]
         IN IF last \in Range(rest) THEN rest ELSE Append(rest, last)

Column(rows, col) == [i \in 1..Len(rows) |-> rows[i][col]]

----------------------------------------------------------------------------
(* Constants of the script.                                                *)

BaseName == "Solar_Suitability_layer"

AllStates == << "All", "States" >>
AllDistricts == << "All", "Districts" >>

HighlySuitable == << "Highly", "Suitable" >>
ModeratelySuitable == << "Moderately", "Suitable" >>

Green == "#4dff4d"
Yellow == "#ffeb3b"
Gray == "#808080"

(* categories: column name -> display name, in the order of the dict.      *)
CategoryKeys == << "Adaptation", "Mitigation", "Replacment", "General_SI" >>

categories ==
    [ Adaptation |-> << "Adaptation" >>,
      Mitigation |-> << "Mitigation" >>,
      Replacment |-> << "Replacement" >>,
      General_SI |-> << "General", "SI" >> ]

DefaultCenter == [lat |-> 205937, lon |-> 789629, den |-> 10000]
NoCenter == [lat |-> 0, lon |-> 0, den |-> 0]

NoPath == [dir |-> "", file |-> [stem |-> "", ext |-> ""]]
NoError == [kind |-> "", field |-> ""]
EmptyTable ==
    [columns |-> {}, rows |-> << >>, centroid_fails |-> FALSE, bounds_fails |-> FALSE]

----------------------------------------------------------------------------
(* Dataset locator.                                                        *)

FirstWithExt(files, ext) ==
    files[CHOOSE i \in 1..Len(files) :
              /\ files[i].ext = ext
              /\ \A j \in 1..(i - 1) : files[j].ext # ext]

(* find_shapefile with the directory listing searched before the parent    *)
(* directory.                                                              *)
find_shapefile_listing_first(base_name) ==
    LET target == [stem |-> base_name, ext |-> "shp"]
    IN  IF target \in Range(cwd_files)
        THEN [dir |-> "cwd", file |-> target]
        ELSE IF \E i \in 1..Len(cwd_files) : cwd_files[i].ext = "shp"
        THEN [dir |-> "cwd", file |-> FirstWithExt(cwd_files, "shp")]
        ELSE IF target \in parent_files
        THEN [dir |-> "parent", file |-> target]
        ELSE [dir |-> "cwd", file |-> target]

find_shapefile(base_name) ==
    LET target == [stem |-> base_name, ext |-> "shp"]
    IN  IF target \in Range(cwd_files)
        THEN [dir |-> "cwd", file |-> target]
        ELSE IF target \in parent_files
        THEN [dir |-> "parent", file |-> target]
        ELSE IF \E i \in 1..Len(cwd_files) : cwd_files[i].ext = "shp"
        THEN [dir |-> "cwd", file |-> FirstWithExt(cwd_files, "shp")]
        ELSE [dir |-> "cwd", file |-> target]

(* gpd.read_file raises when the path names no file.                       *)
PathExists(path) ==
    IF path.dir = "cwd" THEN path.file \in Range(cwd_files)
    ELSE path.file \in parent_files

----------------------------------------------------------------------------
(* Controls column.                                                        *)

(* [str(s) for s in values if s is not None and str(s) != "nan"]           *)
RECURSIVE valid_names(_)
valid_names(values) ==
    IF values = << >> THEN << >>
    ELSE LET s == Head(values)
         IN  IF s # None /\ str(s) # << "nan" >>
             THEN << str(s) >> \o valid_names(Tail(values))
             ELSE valid_names(Tail(values))

state_options(g) ==
    << AllStates >> \o
    (IF "NAME_1" \in g.columns
     THEN sorted(valid_names(unique(Column(g.rows, "NAME_1"))))
     ELSE << >>)

(* The row filter with != written for ==.                                  *)
RECURSIVE rows_where_unequal(_, _, _)
rows_where_unequal(rows, col, text) ==
    IF rows = << >> THEN << >>
    ELSE IF ~CellEquals(Head(rows)[col], text)
    THEN << Head(rows) >> \o rows_where_unequal(Tail(rows), col, text)
    ELSE rows_where_unequal(Tail(rows), col, text)

(* table[table[col] == text]                                               *)
RECURSIVE rows_where(_, _, _)
rows_where(rows, col, text) ==
    IF rows = << >> THEN << >>
    ELSE IF CellEquals(Head(rows)[col], text)
    THEN << Head(rows) >> \o rows_where(Tail(rows), col, text)
    ELSE rows_where(Tail(rows), col, text)

(* The state filter with the first matching row sliced off.                *)
filter_by_state_skip_first(rows, state) ==
    IF state # AllStates
    THEN LET kept == rows_where(rows, "NAME_1", state)
         IN  IF kept = << >> THEN << >> ELSE Tail(kept)
    ELSE rows

filter_by_state(rows, state) ==
    IF state # AllStates THEN rows_where(rows, "NAME_1", state) ELSE rows

(* The district options taken from the whole table whatever the state.     *)
district_options_unfiltered(g, by_state, state) ==
    << AllDistricts >> \o
    (IF "NAME_2" \in g.columns
     THEN sorted(valid_names(unique(Column(g.rows, "NAME_2"))))
     ELSE << >>)

district_options(g, by_state, state) ==
    << AllDistricts >> \o
    (IF "NAME_2" \in g.columns
     THEN IF state # AllStates
          THEN sorted(valid_names(unique(Column(by_state, "NAME_2"))))
          ELSE sorted(valid_names(unique(Column(g.rows, "NAME_2"))))
     ELSE << >>)

filter_by_district(by_state, district) ==
    IF district # AllDistricts
    THEN rows_where(by_state, "NAME_2", district)
    ELSE by_state

(* Indexing a column the table does not have raises KeyError.              *)
filter_raises(g, state, district) ==
    \/ state # AllStates /\ "NAME_1" \notin g.columns
    \/ district # AllDistricts /\ "NAME_2" \notin g.columns

(* unique_values of the legend                                             *)
RECURSIVE legend_values(_)
legend_values(values) ==
    IF values = << >> THEN << >>
    ELSE LET v == Head(values)
         IN  IF v # None /\ str(v) # << "nan" >>
             THEN << v >> \o legend_values(Tail(values))
             ELSE legend_values(Tail(values))

legend_color(value) ==
    IF Contains(str(value), HighlySuitable) THEN Green
    ELSE IF Contains(str(value), ModeratelySuitable) THEN Yellow
    ELSE Gray

build_legend(g, rows, category) ==
    IF category \in g.columns
    THEN LET unique_values == legend_values(unique(Column(rows, category)))
         IN  [i \in 1..Len(unique_values) |->
                 [label |-> str(unique_values[i]),
                  color |-> legend_color(unique_values[i])]]
    ELSE << >>

----------------------------------------------------------------------------
(* Map column.                                                             *)

RECURSIVE SumOver(_, _, _)
SumOver(rows, lo, hi) ==
    IF rows = << >> THEN 0
    ELSE Head(rows).geometry[lo] + Head(rows).geometry[hi]
         + SumOver(Tail(rows), lo, hi)

(* Mean of the centroids, as the exact fraction lat/den, lon/den degrees.  *)
centroid_mean(rows) ==
    [lat |-> SumOver(rows, "miny", "maxy"),
     lon |-> SumOver(rows, "minx", "maxx"),
     den |-> Deg(1) * 2 * Len(rows)]

map_center(g, rows) ==
    IF g.centroid_fails THEN DefaultCenter ELSE centroid_mean(rows)

Min(S) == CHOOSE x \in S : \A y \in S : x <= y
Max(S) == CHOOSE x \in S : \A y \in S : x >= y

(* geometry.total_bounds = [minx, miny, maxx, maxy]                        *)
total_bounds(rows) ==
    << Min({ rows[i].geometry.minx : i \in 1..Len(rows) }),
       Min({ rows[i].geometry.miny : i \in 1..Len(rows) }),
       Max({ rows[i].geometry.maxx : i \in 1..Len(rows) }),
       Max({ rows[i].geometry.maxy : i \in 1..Len(rows) }) >>

(* The zoom heuristic with inclusive thresholds.                           *)
zoom_for_inclusive(lat_diff, lon_diff) ==
    IF lat_diff >= Deg(3) \/ lon_diff >= Deg(3) THEN 6
    ELSE IF lat_diff <= Deg(1) \/ lon_diff <= Deg(1) THEN 9
    ELSE 7

zoom_for(lat_diff, lon_diff) ==
    IF lat_diff > Deg(3) \/ lon_diff > Deg(3) THEN 6
    ELSE IF lat_diff < Deg(1) \/ lon_diff < Deg(1) THEN 9
    ELSE 7

compute_zoom(rows) ==
    LET bounds == total_bounds(rows)
        lat_diff == bounds[4] - bounds[2]
        lon_diff == bounds[3] - bounds[1]
    IN  zoom_for(lat_diff, lon_diff)

(* feature['properties'] of the GeoJSON made from a row: the columns of    *)
(* the table, a NaN written as null.                                       *)
properties(g, row) ==
    [col \in g.columns |-> IF row[col] = NaN THEN None ELSE row[col]]

(* style_function with the two substring tests in the other order.         *)
style_function_moderate_first(props, category) ==
    IF category \in DOMAIN props /\ props[category] # None
    THEN LET category_value == str(props[category])
         IN  IF Contains(category_value, ModeratelySuitable) THEN Yellow
             ELSE IF Contains(category_value, HighlySuitable) THEN Green
             ELSE Gray
    ELSE Gray

style_function(props, category) ==
    IF category \in DOMAIN props /\ props[category] # None
    THEN LET category_value == str(props[category])
         IN  IF Contains(category_value, HighlySuitable) THEN Green
             ELSE IF Contains(category_value, ModeratelySuitable) THEN Yellow
             ELSE Gray
    ELSE Gray

tooltip_fields(g, category) ==
    IF "NAME_2" \in g.columns THEN << "NAME_2", category >>
    ELSE << "OBJECTID", category >>

(* GeoJsonTooltip asserts, when the map is rendered, that every field is a *)
(* property of the features; the first field that is not is reported.      *)
first_missing_field(g, category) ==
    LET fields == tooltip_fields(g, category)
    IN  fields[Min({ j \in 1..Len(fields) : fields[j] \notin g.columns })]

tooltip_raises(g, category) ==
    \E f \in Range(tooltip_fields(g, category)) : f \notin g.columns

(* The lines of the details panel, from district_data = filtered.iloc[0].  *)
RECURSIVE detail_lines(_, _, _)
detail_lines(g, district_data, keys) ==
    IF keys = << >> THEN << >>
    ELSE LET category == Head(keys)
             value == district_data[category]
             rest == detail_lines(g, district_data, Tail(keys))
         IN  IF category \in g.columns /\ value # None /\ str(value) # << "nan" >>
             THEN << [label |-> categories[category], value |-> str(value)] >> \o rest
             ELSE rest

----------------------------------------------------------------------------
(* One run of the script.  w_state, w_district and w_category are the      *)
(* values held by the three selectboxes; prev_districts are the options    *)
(* the district selectbox had in the previous run.  A selectbox whose      *)
(* options changed is a new widget and shows its first option.             *)

LoadFailed(path) ==
    [path |-> path, gdf |-> EmptyTable, states |-> << >>, selected_state |-> AllStates,
     districts |-> << >>, selected_district |-> AllDistricts,
     selected_category |-> CategoryKeys[1], filtered |-> << >>, legend |-> << >>,
     center |-> NoCenter, zoom |-> 0, fills |-> << >>, details_shown |-> FALSE,
     details |-> << >>, outcome |-> "error",
     error |-> [kind |-> "load", field |-> ""]]

Script(w_state, prev_districts, w_district, w_category) ==
    LET path == find_shapefile(BaseName)
        g == disk
        sts == state_options(g)
        sel_state == IF w_state \in Range(sts) THEN w_state ELSE sts[1]
        raises1 == sel_state # AllStates /\ "NAME_1" \notin g.columns
        by_state == IF raises1 THEN << >> ELSE filter_by_state(g.rows, sel_state)
        dists == district_options(g, by_state, sel_state)
        sel_district == IF prev_districts = dists /\ w_district \in Range(dists)
                        THEN w_district ELSE dists[1]
        raises == filter_raises(g, sel_state, sel_district)
        filtered == IF raises THEN << >> ELSE filter_by_district(by_state, sel_district)
        controls ==
            [path |-> path, gdf |-> g, states |-> sts, selected_state |-> sel_state,
             districts |-> dists, selected_district |-> sel_district,
             selected_category |-> w_category, filtered |-> filtered,
             legend |-> build_legend(g, filtered, w_category),
             center |-> NoCenter, zoom |-> 0, fills |-> << >>,
             details_shown |-> FALSE, details |-> << >>,
             outcome |-> "no_data", error |-> NoError]
        Raise(r, kind, field) ==
            [r EXCEPT !.outcome = "error", !.error = [kind |-> kind, field |-> field]]
        with_center == [controls EXCEPT !.center = map_center(g, filtered)]
        with_zoom == [with_center EXCEPT !.zoom = compute_zoom(filtered)]
        with_styles ==
            [with_zoom EXCEPT
                !.fills = [i \in 1..Len(filtered) |->
                              style_function(properties(g, filtered[i]), w_category)]]
        with_map == [with_styles EXCEPT !.outcome = "map"]
        with_details ==
            IF sel_district # AllDistricts
            THEN [with_map EXCEPT
                     !.details_shown = TRUE,
                     !.details = detail_lines(g, filtered[1], CategoryKeys)]
            ELSE with_map
    IN  IF ~PathExists(path) THEN LoadFailed(path)
        ELSE IF raises
        THEN Raise([controls EXCEPT !.legend = << >>], "KeyError", "")
        ELSE IF filtered = << >> THEN controls
        ELSE IF g.bounds_fails THEN Raise(with_center, "bounds", "")
        ELSE IF tooltip_raises(g, w_category)
        THEN Raise(with_styles, "AssertionError", first_missing_field(g, w_category))
        ELSE with_details

Show(r) ==
    /\ shapefile_path' = r.path
    /\ gdf' = r.gdf
    /\ states' = r.states
    /\ selected_state' = r.selected_state
    /\ districts' = r.districts
    /\ selected_district' = r.selected_district
    /\ selected_category' = r.selected_category
    /\ filtered_gdf' = r.filtered
    /\ legend' = r.legend
    /\ center' = r.center
    /\ zoom_level' = r.zoom
    /\ fills' = r.fills
    /\ details_shown' = r.details_shown
    /\ details' = r.details
    /\ outcome' = r.outcome
    /\ error' = r.error
    /\ UNCHANGED << cwd_files, parent_files, disk >>

(* The page is opened: the script runs with every selectbox at its first   *)
(* option.                                                                 *)
FirstRun ==
    /\ outcome = "fresh"
    /\ \E r \in { Script(AllStates, << >>, AllDistricts, CategoryKeys[1]) } : Show(r)

(* The user picks another state; the script runs again.                    *)
SelectState(s) ==
    /\ outcome # "fresh"
    /\ s \in Range(states)
    /\ s # selected_state
    /\ \E r \in { Script(s, districts, selected_district, selected_category) } : Show(r)

(* The user picks another district; the script runs again.                 *)
SelectDistrict(d) ==
    /\ outcome # "fresh"
    /\ d \in Range(districts)
    /\ d # selected_district
    /\ \E r \in { Script(selected_state, districts, d, selected_category) } : Show(r)

(* The user picks another category; the script runs again.                 *)
SelectCategory(c) ==
    /\ outcome # "fresh"
    /\ states # << >>
    /\ c \in Range(CategoryKeys)
    /\ c # selected_category
    /\ \E r \in { Script(selected_state, districts, selected_district, c) } : Show(r)

Next ==
    \/ FirstRun
    \/ \E s \in Range(states) : SelectState(s)
    \/ \E d \in Range(districts) : SelectDistrict(d)
    \/ \E c \in Range(CategoryKeys) : SelectCategory(c)

----------------------------------------------------------------------------
(* Initial states: the page has not been opened, the files are on disk.    *)

SeqsUpTo(S, n) == UNION { [1..k -> S] : k \in 0..n }

ShpFile(stem) == [stem |-> stem, ext |-> "shp"]

Fresh ==
    /\ shapefile_path = NoPath
    /\ gdf = EmptyTable
    /\ states = << >>
    /\ selected_state = AllStates
    /\ districts = << >>
    /\ selected_district = AllDistricts
    /\ selected_category = CategoryKeys[1]
    /\ filtered_gdf = << >>
    /\ legend = << >>
    /\ center = NoCenter
    /\ zoom_level = 0
    /\ fills = << >>
    /\ details_shown = FALSE
    /\ details = << >>
    /\ outcome = "fresh"
    /\ error = NoError

ShapefileInPlace ==
    /\ cwd_files = << ShpFile(BaseName), [stem |-> BaseName, ext |-> "dbf"] >>
    /\ parent_files = {}

Highly3 == Str(<< "Highly", "Suitable", "(3)" >>)
Moderately2 == Str(<< "Moderately", "Suitable", "(2)" >>)
NotSuitable1 == Str(<< "Not", "Suitable", "(1)" >>)
ModeratelyToHighly == Str(<< "Moderately", "Suitable", "to", "Highly", "Suitable" >>)

Box(minx, miny, maxx, maxy) ==
    [minx |-> minx, miny |-> miny, maxx |-> maxx, maxy |-> maxy]

(* Boxes in half degrees, west and south edge at 70E 10N.                  *)
HalfByHalf == Box(140, 20, 141, 21)
TwoByTwo == Box(140, 20, 144, 24)
WideAndThin == Box(140, 20, 147, 21)
ThreeByOne == Box(140, 20, 146, 22)
TwoByTall == Box(140, 20, 144, 27)

Geometries == { HalfByHalf, TwoByTwo, WideAndThin, ThreeByOne, TwoByTall }

NameColumns == { "NAME_1", "NAME_2", "OBJECTID" }
AllColumns == NameColumns \cup Range(CategoryKeys)

Cell(cols, col, values) == IF col \in cols THEN values ELSE { Absent }

(* The rows a table with columns cols can hold, given the values each      *)
(* column may take.                                                        *)
RowsOf(cols, dom, geoms) ==
    { [NAME_1 |-> n1, NAME_2 |-> n2, OBJECTID |-> id, Adaptation |-> a,
       Mitigation |-> m, Replacment |-> r, General_SI |-> gs, geometry |-> gm] :
        n1 \in Cell(cols, "NAME_1", dom.NAME_1),
        n2 \in Cell(cols, "NAME_2", dom.NAME_2),
        id \in Cell(cols, "OBJECTID", { Num("1") }),
        a \in Cell(cols, "Adaptation", dom.Adaptation),
        m \in Cell(cols, "Mitigation", dom.Mitigation),
        r \in Cell(cols, "Replacment", dom.Replacment),
        gs \in Cell(cols, "General_SI", dom.General_SI),
        gm \in geoms }

Tables(cols, dom, geoms, n, fails) ==
    { [columns |-> cols, rows |-> rs, centroid_fails |-> f[1], bounds_fails |-> f[2]] :
        rs \in SeqsUpTo(RowsOf(cols, dom, geoms), n), f \in fails }

NoFailure == { << FALSE, FALSE >> }

(* A column of a shapefile has one type: text (null is None) or number     *)
(* (null is NaN).                                                          *)
StateText == { None, Str(<< "Goa" >>), Str(<< "Kerala" >>) }
StateNumbers == { NaN, Num("1") }
DistrictText == { None, Str(<< "North" >>), Str(<< "South" >>), Str(<< "nan" >>) }
DistrictNumbers == { NaN, Num("2") }

RegionDomains ==
    { [NAME_1 |-> n1, NAME_2 |-> n2, Adaptation |-> { Highly3 },
       Mitigation |-> { Moderately2 }, Replacment |-> { NotSuitable1 },
       General_SI |-> { Highly3 }] :
        n1 \in { StateText, StateNumbers }, n2 \in { DistrictText, DistrictNumbers } }

(* Region names, their types and the presence of the name columns vary.    *)
InitRegion ==
    /\ Fresh
    /\ ShapefileInPlace
    /\ \E present \in SUBSET NameColumns, dom \in RegionDomains :
           disk \in Tables(present \cup Range(CategoryKeys), dom, { TwoByTwo },
                           MaxRows, NoFailure)

StyleDomain ==
    [NAME_1 |-> { Str(<< "Goa" >>) }, NAME_2 |-> { Str(<< "North" >>) },
     Adaptation |-> { Highly3, None },
     Mitigation |-> { Moderately2, ModeratelyToHighly },
     Replacment |-> { NotSuitable1, NaN },
     General_SI |-> { Highly3, Moderately2 }]

(* Suitability labels vary, and one category column may be missing.        *)
InitStyle ==
    /\ Fresh
    /\ ShapefileInPlace
    /\ \E cols \in { AllColumns } \cup { AllColumns \ { k } : k \in Range(CategoryKeys) } :
           disk \in Tables(cols, StyleDomain, { TwoByTwo }, MaxStyleRows, NoFailure)

GeoDomains ==
    { [NAME_1 |-> n1,
       NAME_2 |-> { Str(<< "North" >>), Str(<< "South" >>) },
       Adaptation |-> { Highly3 }, Mitigation |-> { Moderately2 },
       Replacment |-> { None }, General_SI |-> { NotSuitable1 }] :
        n1 \in { { Str(<< "Goa" >>) }, { Num("1") } } }

(* Geometries vary, and the centroid or the bounds computation may fail.   *)
InitGeo ==
    /\ Fresh
    /\ ShapefileInPlace
    /\ \E dom \in GeoDomains :
           disk \in Tables(AllColumns, dom, Geometries, MaxGeoRows, BOOLEAN \X BOOLEAN)

FileNames ==
    { ShpFile(BaseName), ShpFile("other"), ShpFile("zones"),
      [stem |-> BaseName, ext |-> "dbf"] }

Listings ==
    { l \in SeqsUpTo(FileNames, MaxFiles) :
        \A i, j \in 1..Len(l) : i # j => l[i] # l[j] }

LocatorTable ==
    [columns |-> AllColumns,
     rows |-> << [NAME_1 |-> Str(<< "Goa" >>), NAME_2 |-> Str(<< "North" >>),
                  OBJECTID |-> Num("1"), Adaptation |-> Highly3,
                  Mitigation |-> Moderately2, Replacment |-> None,
                  General_SI |-> NotSuitable1, geometry |-> TwoByTwo],
                 [NAME_1 |-> Str(<< "Kerala" >>), NAME_2 |-> Str(<< "South" >>),
                  OBJECTID |-> Num("2"), Adaptation |-> Moderately2,
                  Mitigation |-> Highly3, Replacment |-> NotSuitable1,
                  General_SI |-> None, geometry |-> HalfByHalf] >>,
     centroid_fails |-> FALSE, bounds_fails |-> FALSE]

(* The files of the working and of the parent directory vary.              *)
InitLocator ==
    /\ Fresh
    /\ cwd_files \in Listings
    /\ parent_files \in SUBSET { ShpFile(BaseName), ShpFile("other") }
    /\ disk = LocatorTable

SpecRegion == InitRegion /\ [][Next]_vars
SpecStyle == InitStyle /\ [][Next]_vars
SpecGeo == InitGeo /\ [][Next]_vars
SpecLocator == InitLocator /\ [][Next]_vars

Init == InitRegion
Spec == SpecRegion

----------------------------------------------------------------------------
(* Properties.                                                             *)

(* The script got as far as building the selectboxes.                      *)
ControlsShown == states # << >>

IsNull(v) == v = None \/ v = NaN \/ v = Absent

MatchesState(row) ==
    selected_state = AllStates \/ CellEquals(row.NAME_1, selected_state)

MatchesDistrict(row) ==
    selected_district = AllDistricts \/ CellEquals(row.NAME_2, selected_district)

(* The district names of the records of the selected state, except those   *)
(* in excluded.                                                            *)
DistrictNames(excluded) ==
    { str(gdf.rows[i].NAME_2) :
        i \in { j \in 1..Len(gdf.rows) :
                  /\ MatchesState(gdf.rows[j])
                  /\ ~IsNull(gdf.rows[j].NAME_2) } } \ excluded

(* options is first followed by exactly the texts of names, ascending and  *)
(* without repetition.                                                     *)
IsOptionList(options, first, names) ==
    /\ Len(options) >= 1
    /\ options[1] = first
    /\ \A i \in 2..(Len(options) - 1) : TextLess(options[i], options[i + 1])
    /\ { options[i] : i \in 2..Len(options) } = names

ColorOfText(text) ==
    IF Contains(text, HighlySuitable) THEN Green
    ELSE IF Contains(text, ModeratelySuitable) THEN Yellow
    ELSE Gray

(* C2: the colour of a label depends only on its text: green when it       *)
(* contains "Highly Suitable", else yellow when it contains "Moderately    *)
(* Suitable", else gray, gray also for a null or missing value; the legend *)
(* and the fill of every feature agree on identical text.                  *)
C2_ColorByLabelText ==
    /\ \A j \in 1..Len(legend) : legend[j].color = ColorOfText(legend[j].label)
    /\ fills # << >> => Len(fills) = Len(filtered_gdf)
    /\ \A i \in 1..Len(fills) :
           LET v == filtered_gdf[i][selected_category]
           IN  /\ fills[i] = IF IsNull(v) THEN Gray ELSE ColorOfText(str(v))
               /\ \A j \in 1..Len(legend) :
                      str(v) = legend[j].label => fills[i] = legend[j].color

(* The legend shows a green and a yellow label of the Mitigation category  *)
(* and the features are filled.                                            *)
C2_Witness ==
    /\ selected_category = "Mitigation"
    /\ { legend[j].color : j \in 1..Len(legend) } = { Green, Yellow }
    /\ Len(fills) = 2
    /\ outcome = "map"

NoRecordMatches ==
    \A i \in 1..Len(gdf.rows) :
        ~(MatchesState(gdf.rows[i]) /\ MatchesDistrict(gdf.rows[i]))

(* C3: a selection that matches no record gives an empty subset and the    *)
(* "no data" notice: no center, bounds or zoom is computed, no map and no  *)
(* details panel is shown, and nothing is raised.                          *)
C3_EmptySubsetIsNoData ==
    ControlsShown /\ NoRecordMatches
        => /\ filtered_gdf = << >>
           /\ outcome = "no_data"
           /\ error = NoError
           /\ center = NoCenter
           /\ zoom_level = 0
           /\ fills = << >>
           /\ ~details_shown
           /\ details = << >>

(* A selection matches none of the records of a table that has records     *)
(* and whose geometry computations would fail.                             *)
C3_Witness ==
    /\ ControlsShown
    /\ NoRecordMatches
    /\ Len(gdf.rows) > 0
    /\ gdf.bounds_fails
    /\ gdf.centroid_fails
    /\ outcome = "no_data"

LatSpan ==
    Max({ filtered_gdf[i].geometry.maxy : i \in 1..Len(filtered_gdf) })
    - Min({ filtered_gdf[i].geometry.miny : i \in 1..Len(filtered_gdf) })

LonSpan ==
    Max({ filtered_gdf[i].geometry.maxx : i \in 1..Len(filtered_gdf) })
    - Min({ filtered_gdf[i].geometry.minx : i \in 1..Len(filtered_gdf) })

(* C4: the zoom level is 6 when either span exceeds 3 degrees, else 9 when *)
(* either span is below 1 degree, else 7; so 3.5 degrees gives 6, 0.5      *)
(* gives 9, 2 gives 7, exactly 3 and exactly 1 give 7, and 6 wins when one *)
(* span exceeds 3 and the other is below 1.  Spans are in half degrees.    *)
C4_ZoomFromSpans ==
    /\ outcome = "map" => zoom_level # 0
    /\ zoom_level # 0
        => /\ filtered_gdf # << >>
           /\ zoom_level =
                 IF LatSpan > Deg(3) \/ LonSpan > Deg(3) THEN 6
                 ELSE IF LatSpan < Deg(1) \/ LonSpan < Deg(1) THEN 9
                 ELSE 7
           /\ LatSpan = 7 \/ LonSpan = 7 => zoom_level = 6
           /\ LatSpan = 1 /\ LonSpan = 1 => zoom_level = 9
           /\ LatSpan = 4 /\ LonSpan = 4 => zoom_level = 7
           /\ LatSpan \in { 2, 6 } /\ LonSpan \in { 2, 6 } => zoom_level = 7
           /\ LonSpan = 7 /\ LatSpan = 1 => zoom_level = 6

(* The subset spans exactly 3 degrees of longitude and exactly 1 degree of *)
(* latitude.                                                               *)
C4_Witness ==
    /\ outcome = "map"
    /\ filtered_gdf # << >>
    /\ LonSpan = Deg(3)
    /\ LatSpan = Deg(1)
    /\ zoom_level = 7

RECURSIVE ExpectedDetails(_, _)
ExpectedDetails(row, keys) ==
    IF keys = << >> THEN << >>
    ELSE (IF IsNull(row[Head(keys)]) THEN << >>
          ELSE << [label |-> categories[Head(keys)], value |-> str(row[Head(keys)])] >>)
         \o ExpectedDetails(row, Tail(keys))

(* C5: the details panel is shown exactly when a district is selected and  *)
(* the filtered subset is non-empty; it then shows, for the first record   *)
(* of the subset, one line per category whose value is present and         *)
(* non-null, under the corrected display label.                            *)
C5_DetailsPanel ==
    ControlsShown
        => /\ details_shown <=> (selected_district # AllDistricts /\ filtered_gdf # << >>)
           /\ details_shown => details = ExpectedDetails(filtered_gdf[1], CategoryKeys)

RECURSIVE IsSubSeq(_, _)
IsSubSeq(a, b) ==
    IF a = << >> THEN TRUE
    ELSE IF b = << >> THEN FALSE
    ELSE IF Head(a) = Head(b) THEN IsSubSeq(Tail(a), Tail(b))
    ELSE IsSubSeq(a, Tail(b))

(* C6: filtering the filtered subset again with the same state and         *)
(* district gives the same subset, and the subset is made of records of    *)
(* the collection, unchanged and in their order.                           *)
C6_FilterIdempotent ==
    ControlsShown /\ error.kind # "KeyError"
        => /\ filter_by_district(filter_by_state(filtered_gdf, selected_state),
                                 selected_district) = filtered_gdf
           /\ IsSubSeq(filtered_gdf, gdf.rows)
           /\ \A i \in 1..Len(filtered_gdf) :
                  MatchesState(filtered_gdf[i]) /\ MatchesDistrict(filtered_gdf[i])

(* A state and a district are selected and the filter kept some records    *)
(* and dropped others.                                                     *)
C6_Witness ==
    /\ ControlsShown
    /\ selected_state # AllStates
    /\ selected_district # AllDistricts
    /\ filtered_gdf # << >>
    /\ Len(filtered_gdf) < Len(gdf.rows)

(* C7: a failure of the centroid or of the bounds computation on a         *)
(* non-empty subset is caught locally: the map is rendered, with the       *)
(* default center when the centroid failed, and the run does not end in    *)
(* the top-level error state.                                              *)
C7_GeometryFailureCaught ==
    ControlsShown /\ filtered_gdf # << >> /\ (gdf.centroid_fails \/ gdf.bounds_fails)
        => /\ outcome = "map"
           /\ error = NoError
           /\ gdf.centroid_fails => center = DefaultCenter

(* C8: without a NAME_1 column the state options are just "All States",    *)
(* without a NAME_2 column the district options are just "All Districts",  *)
(* and in both cases the run ends with the map or the "no data" notice,    *)
(* not in the top-level error state.                                       *)
C8_MissingColumnDegrades ==
    ControlsShown
        => /\ "NAME_1" \notin gdf.columns => states = << AllStates >>
           /\ "NAME_2" \notin gdf.columns => districts = << AllDistricts >>
           /\ "NAME_1" \notin gdf.columns \/ "NAME_2" \notin gdf.columns
                  => outcome \in { "map", "no_data" }

BaseShp == ShpFile(BaseName)

ListedShp == { i \in 1..Len(cwd_files) : cwd_files[i].ext = "shp" }

C10_OfferedOptionsMatch ==
    ControlsShown
        => /\ selected_state \in Range(states)
           /\ selected_district \in Range(districts)
           /\ Len(gdf.rows) > 0 => filtered_gdf # << >> /\ outcome # "no_data"

====
